---- MODULE Spec2Model ----
(***************************************************************************)
(* Model of ChatServer (src/main.cpp): the select() event loop, the client *)
(* registry `clients`, the watched-set `master_set` with its bound         *)
(* `max_fd`, and the handlers handle_new_connection / handle_client_data / *)
(* register_client / remove_client / broadcast / send_welcome.             *)
(*                                                                         *)
(* Bytes are modelled as one-character strings ("CR" and "LF" stand for    *)
(* '\r' and '\n'); a std::string is a sequence of them, and the literal    *)
(* pieces of a std::format result are kept as single elements of the       *)
(* sequence.  The emoji that decorate the server's texts are left out.     *)
(***************************************************************************)
EXTENDS Integers, Sequences, FiniteSets, TLC

\* ------------------------------------------------------------------ bounds
\* Highest descriptor number the process may open (its RLIMIT_NOFILE - 1).
MaxFd == 6

\* --------------------------------------------------------------- constants
\* socket() in setup_server returns the lowest free descriptor: 0, 1 and 2
\* are the standard streams.
ServerSocket == 3

ClientFds == (ServerSocket + 1)..MaxFd

\* What one recv() may return as data.
Chunks ==
    { <<"a", "LF">>,                 \* "a\n"
      <<"b", "CR", "LF">>,           \* "b\r\n"
      <<"A", "LF">>,                 \* "A\n"   (differs from "a" in case only)
      <<"LF">>,                      \* "\n"    (empty line)
      <<"a", "LF", "b", "LF">>,      \* "a\nb\n" (two lines in one read)
      <<"b">> }                      \* "b"     (no terminator)

VARIABLES
    clients,      \* Container clients: sequence of Client {socket, nickname}
    master_set,   \* fd_set master_set
    max_fd,       \* SocketT max_fd
    read_fds,     \* run(): descriptors select() reported that the for loop
                  \* has not visited yet
    peer,         \* kernel: per client descriptor, "free" (not open in this
                  \* process), or the state of its connection: "open",
                  \* "data" (open, unread bytes), "closed" (FIN received,
                  \* nothing unread), "reset" (RST received)
    sent,         \* history: the send() calls of the handler that has just
                  \* run, in order (empty after any other step)
    last,         \* history: what the handler that has just run did, and
                  \* the registry, watched-set and bound it started from
    named,        \* history: per descriptor, the nickname its connection
                  \* claimed while no live connection held it, until the
                  \* connection is gone
    freed,        \* history: nickname and descriptor given up by a
                  \* disconnect, while nothing has happened since but a new
                  \* connection on that descriptor being accepted, sending
                  \* and being read
    got,          \* history: the bytes recv() gave the handler that has just
                  \* run (empty when it read none)
    script        \* scenario: per descriptor, how many reads with bytes have
                  \* been handled (counted in the scenario only)

vars == <<clients, master_set, max_fd, read_fds, peer, sent, last, named,
          freed, got, script>>

server_socket == ServerSocket

Min(S) == CHOOSE x \in S : \A y \in S : x <= y

\* ------------------------------------------------------------ pure helpers

FD_SET(fd, set) == set \cup {fd}

\* Mutant: the descriptor is not cleared.
FD_CLR_noop(fd, set) == set

FD_CLR(fd, set) == set \ {fd}

\* send(fd, ...) < 0: the remote end has reset the connection.
send_ok(st) == st # "reset"

Send(to, kind, msg) ==
    [to |-> to, kind |-> kind, msg |-> msg, ok |-> send_ok(peer[to])]

\* Mutant: no entry is ever found.
find_client_none(cl, socket) == <<>>

\* Mutant: the socket is not compared; the first entry is returned.
find_client_any(cl, socket) == IF cl = <<>> THEN <<>> ELSE <<cl[1]>>

\* find_client: the first entry whose socket matches, as a 0- or 1-element
\* sequence (std::optional).
find_client(cl, socket) ==
    LET I == {i \in 1..Len(cl) : cl[i].socket = socket}
    IN  IF I = {} THEN <<>> ELSE <<cl[Min(I)]>>

\* Mutant: only the first entry is compared.
nickname_exists_first(cl, nickname) ==
    cl # <<>> /\ cl[1].nickname = nickname

nickname_exists(cl, nickname) ==
    \E i \in 1..Len(cl) : cl[i].nickname = nickname

\* Mutant: the sender is not filtered out.
broadcast_filter_all(cl, sender_fd) == cl

\* The filter of broadcast: every entry whose socket is not the sender's.
broadcast_filter(cl, sender_fd) ==
    SelectSeq(cl, LAMBDA c : c.socket # sender_fd)

\* Mutant: the loop stops at the first send that fails.
broadcast_abort(cl, sender_fd, kind, message) ==
    LET to  == broadcast_filter(cl, sender_fd)
        all == [i \in 1..Len(to) |-> Send(to[i].socket, kind, message)]
        bad == {i \in 1..Len(all) : ~all[i].ok}
    IN  IF bad = {} THEN all ELSE SubSeq(all, 1, Min(bad))

\* broadcast: one send per filtered entry, in container order; a failed
\* send is logged and the loop goes on.
broadcast(cl, sender_fd, kind, message) ==
    LET to == broadcast_filter(cl, sender_fd)
    IN  [i \in 1..Len(to) |-> Send(to[i].socket, kind, message)]


\* Mutant: only the trailing terminators are cut off.
RECURSIVE first_line_trim(_)
first_line_trim(message) ==
    IF message # <<>> /\ message[Len(message)] \in {"CR", "LF"}
    THEN first_line_trim(SubSeq(message, 1, Len(message) - 1))
    ELSE message

\* message.find_first_of("\r\n") and substr(0, end_pos).
first_line(message) ==
    LET T == {i \in 1..Len(message) : message[i] \in {"CR", "LF"}}
    IN  IF T = {} THEN message ELSE SubSeq(message, 1, Min(T) - 1)

\* Mutant: no line counts as empty.
empty_never(message) == FALSE

\* message.empty()
empty(message) == message = <<>>

\* The fold of send_welcome: nicknames joined with ", ".
RECURSIVE fold_left(_, _)
fold_left(nicks, acc) ==
    IF nicks = <<>> THEN acc
    ELSE fold_left(Tail(nicks),
                   IF acc = <<>> THEN Head(nicks)
                   ELSE acc \o <<", ">> \o Head(nicks))

\* Mutant: the new client itself is not filtered out of the list.
welcome_filter_all(cl, socket) ==
    SelectSeq(cl, LAMBDA c : c.nickname # <<>>)

\* The filter that send_welcome applies, for the list and for the count.
welcome_filter(cl, socket) ==
    SelectSeq(cl, LAMBDA c : c.socket # socket /\ c.nickname # <<>>)

online_users(cl, socket) ==
    LET f == welcome_filter(cl, socket)
    IN  fold_left([i \in 1..Len(f) |-> f[i].nickname], <<>>)

welcome_count(cl, socket) ==
    Cardinality({i \in 1..Len(cl) : cl[i].socket # socket /\ cl[i].nickname # <<>>})

\* The text send_welcome sends to `socket`.
welcome_message(cl, socket) ==
    LET count == welcome_count(cl, socket)
    IN  IF count = 0
        THEN <<"Welcome! You are the only user here.", "CR", "LF">>
        ELSE <<"Welcome! ", ToString(count), " users online.", "CR", "LF",
               "Users: ">> \o online_users(cl, socket) \o <<"CR", "LF">>

send_welcome(cl, socket) == Send(socket, "welcome", welcome_message(cl, socket))

join_msg(nickname) == <<"(wave) ">> \o nickname \o <<" joined the chat", "CR", "LF">>

leave_msg(client) ==
    <<"(wave) ">> \o (IF client.nickname = <<>> THEN <<"unknown">> ELSE client.nickname)
           \o <<" left the chat", "CR", "LF">>

broadcast_msg(client, message) ==
    <<"(chat) ">> \o client.nickname \o <<": ">> \o message \o <<"CR", "LF">>

\* clients.emplace_back(socket, nickname)
emplace_back(cl, socket, nickname) ==
    Append(cl, [socket |-> socket, nickname |-> nickname])

\* Mutant: the entry stays in the container.
remove_if_none(cl, socket) == cl

\* Mutant: the first entry is erased, whichever socket it has.
remove_if_front(cl, socket) == IF cl = <<>> THEN cl ELSE Tail(cl)

\* clients.remove_if(c.socket == socket)
remove_if(cl, socket) == SelectSeq(cl, LAMBDA c : c.socket # socket)

\* The rescan of remove_client: the largest of server_socket and the
\* sockets in the registry.
RECURSIVE rescan(_, _)
rescan(cl, m) ==
    IF cl = <<>> THEN m
    ELSE rescan(Tail(cl), IF Head(cl).socket > m THEN Head(cl).socket ELSE m)


\* ------------------------------------------------------------------- state

\* The nicknames a read can carry.
Names == {first_line(c) : c \in Chunks} \ {<<>>}

NoOp == [op |-> "none", fd |-> 0, recv |-> "none", line |-> <<>>,
         pre |-> <<>>, pre_set |-> {}, pre_max |-> 0, pre_named |-> <<>>,
         pre_peer |-> <<>>]

NoOne == [nickname |-> <<>>, socket |-> 0]

\* State after the constructor (setup_server): only the listening socket is
\* watched.
Init ==
    /\ clients = <<>>
    /\ master_set = {server_socket}
    /\ max_fd = server_socket
    /\ read_fds = {}
    /\ peer = [fd \in ClientFds |-> "free"]
    /\ sent = <<>>
    /\ last = NoOp
    /\ named = [fd \in ClientFds |-> <<>>]
    /\ freed = NoOne
    /\ got = <<>>
    /\ script = [fd \in ClientFds |-> 0]

\* A step that is not a handler leaves no handler history behind.
Quiet == sent' = <<>> /\ last' = NoOp /\ got' = <<>>

\* ------------------------------------------------------------- environment

\* A remote end writes bytes.  The handlers of a pass cannot tell bytes that
\* arrive during the pass from bytes that arrive right after it (the pass
\* reads each descriptor of read_fds once, and these bytes are not among
\* them), so arrival is placed between passes.
PeerSend ==
    \E fd \in ClientFds :
        /\ read_fds = {}
        /\ peer[fd] = "open"
        /\ peer' = [peer EXCEPT ![fd] = "data"]
        /\ Quiet
        /\ freed' = IF fd = freed.socket THEN freed ELSE NoOne
        /\ UNCHANGED <<clients, master_set, max_fd, read_fds, named, script>>

\* A remote end closes its side: reads return 0 once the bytes are drained.
\* Sends to it still succeed, so as for PeerSend the close is placed between
\* passes.
PeerClose ==
    \E fd \in ClientFds :
        /\ read_fds = {}
        /\ peer[fd] = "open"
        /\ peer' = [peer EXCEPT ![fd] = "closed"]
        /\ Quiet
        /\ freed' = NoOne
        /\ UNCHANGED <<clients, master_set, max_fd, read_fds, named, script>>

\* A remote end resets the connection: reads and sends fail.  This can
\* happen between any two handlers of a pass.
PeerReset ==
    \E fd \in ClientFds :
        /\ peer[fd] \in {"open", "data", "closed"}
        /\ peer' = [peer EXCEPT ![fd] = "reset"]
        /\ Quiet
        /\ freed' = NoOne
        /\ UNCHANGED <<clients, master_set, max_fd, read_fds, named, script>>

\* ---------------------------------------------------------------- run loop

\* A client descriptor select() reports as ready to read.
readable(fd) == peer[fd] \in {"data", "closed", "reset"}

\* select(max_fd + 1, &read_fds, ...): blocks until a watched descriptor
\* below the bound is ready, and reports all that are.  The listening
\* socket is ready when a remote end is connecting.
Select ==
    /\ read_fds = {}
    /\ \E connecting \in SUBSET {server_socket} :
          LET ready == {fd \in (master_set \ {server_socket}) :
                            fd <= max_fd /\ readable(fd)}
                       \cup (connecting \cap master_set)
          IN  /\ ready # {}
              /\ read_fds' = ready
    /\ Quiet
    /\ UNCHANGED <<clients, master_set, max_fd, peer, named, freed, script>>

\* ---------------------------------------------------------------- handlers

Did(op, fd, recv, line) ==
    last' = [op |-> op, fd |-> fd, recv |-> recv, line |-> line,
             pre |-> clients, pre_set |-> master_set, pre_max |-> max_fd,
             pre_named |-> named, pre_peer |-> peer]

prompt == <<"(wave) Enter nickname:", "CR", "LF", "> ">>

error == <<"(x) Nickname taken, choose another:", "CR", "LF", "> ">>

\* handle_new_connection: accept() takes the lowest free descriptor and
\* fails when there is none; the prompt is sent, and a failed send closes
\* the new socket and clears it from master_set.  The remote end may have
\* reset the connection before the server accepts it.
handle_new_connection ==
    /\ read_fds # {}
    /\ Min(read_fds) = server_socket
    /\ read_fds' = read_fds \ {server_socket}
    /\ LET free == {fd \in ClientFds : peer[fd] = "free"}
       IN  IF free = {}
           THEN /\ Did("accept_failed", -1, "none", <<>>)
                /\ sent' = <<>>
                /\ freed' = NoOne
                /\ UNCHANGED <<clients, master_set, max_fd, peer>>
           ELSE \E st \in {"open", "reset"} :
                LET new_socket == Min(free)
                    ok == send_ok(st)
                IN  /\ max_fd' = IF new_socket > max_fd THEN new_socket ELSE max_fd
                    /\ sent' = << [to |-> new_socket, kind |-> "prompt",
                                   msg |-> prompt, ok |-> ok] >>
                    /\ IF ok
                       THEN /\ peer' = [peer EXCEPT ![new_socket] = st]
                            /\ master_set' = FD_SET(new_socket, master_set)
                            /\ Did("accept", new_socket, "none", <<>>)
                       ELSE /\ peer' = [peer EXCEPT ![new_socket] = "free"]
                            /\ master_set' = FD_CLR(new_socket, FD_SET(new_socket, master_set))
                            /\ Did("prompt_failed", new_socket, "none", <<>>)
                    /\ freed' = IF ok /\ new_socket = freed.socket
                                THEN freed ELSE NoOne
                    /\ UNCHANGED clients
    /\ got' = <<>>
    /\ UNCHANGED <<named, script>>

\* remove_client: everything happens only when find_client finds an entry.
remove_client(socket, recv) ==
    LET client == find_client(clients, socket)
    IN  IF client # <<>>
        THEN /\ sent' = broadcast(clients, socket, "leave", leave_msg(client[1]))
             /\ peer' = [peer EXCEPT ![socket] = "free"]
             /\ master_set' = FD_CLR(socket, master_set)
             /\ clients' = remove_if(clients, socket)
             /\ max_fd' = IF socket = max_fd
                          THEN rescan(remove_if(clients, socket), server_socket)
                          ELSE max_fd
             /\ Did("remove", socket, recv, <<>>)
        ELSE /\ sent' = <<>>
             /\ Did("remove_absent", socket, recv, <<>>)
             /\ UNCHANGED <<clients, master_set, max_fd, peer>>

\* register_client
register_client(socket, nickname) ==
    /\ IF nickname_exists(clients, nickname)
       THEN /\ sent' = <<Send(socket, "reject", error)>>
            /\ Did("reject", socket, "data", nickname)
            /\ UNCHANGED clients
       ELSE LET cl == emplace_back(clients, socket, nickname)
            IN  /\ clients' = cl
                /\ sent' = <<send_welcome(cl, socket)>>
                           \o broadcast(cl, socket, "join", join_msg(nickname))
                /\ Did("register", socket, "data", nickname)
    /\ UNCHANGED <<master_set, max_fd>>

\* The dispatch at the end of handle_client_data, for a non-empty line.
dispatch(socket, message) ==
    LET client == find_client(clients, socket)
    IN  IF client = <<>>
        THEN register_client(socket, message)
        ELSE /\ sent' = broadcast(clients, socket, "chat",
                                  broadcast_msg(client[1], message))
             /\ Did("chat", socket, "data", message)
             /\ UNCHANGED <<clients, master_set, max_fd>>

\* History: the connection on `socket` is gone.
NoteGone(socket) ==
    /\ named' = [named EXCEPT ![socket] = <<>>]
    /\ freed' = IF named[socket] # <<>>
                THEN [nickname |-> named[socket], socket |-> socket]
                ELSE NoOne

\* History: the connection on `socket` sent the line `message`.
NoteLine(socket, message) ==
    /\ named' = IF /\ message # <<>>
                   /\ named[socket] = <<>>
                   /\ \A fd \in ClientFds : named[fd] # message
                THEN [named EXCEPT ![socket] = message]
                ELSE named
    /\ freed' = IF /\ message = freed.nickname
                   /\ socket = freed.socket
                   /\ named[socket] = <<>>
                THEN freed
                ELSE NoOne

\* handle_client_data(socket), for the lowest descriptor of read_fds when it
\* is not the listening one.  recv() fails on a reset connection, returns
\* the unread bytes if there are any (one of `buffers`), and 0 after the
\* remote end closed.
client_data(buffers) ==
    /\ read_fds # {}
    /\ LET socket == Min(read_fds)
       IN  /\ socket # server_socket
           /\ read_fds' = read_fds \ {socket}
           /\ IF peer[socket] \in {"reset", "free"}
              THEN remove_client(socket, "err") /\ NoteGone(socket) /\ got' = <<>>
              ELSE IF peer[socket] = "closed"
              THEN remove_client(socket, "eof") /\ NoteGone(socket) /\ got' = <<>>
              ELSE \E buffer \in buffers :
                      LET message == first_line(buffer)
                      IN  /\ peer' = [peer EXCEPT ![socket] = "open"]
                          /\ got' = buffer
                          /\ NoteLine(socket, message)
                          /\ IF empty(message)
                             THEN /\ sent' = <<>>
                                  /\ Did("empty", socket, "data", <<>>)
                                  /\ UNCHANGED <<clients, master_set, max_fd>>
                             ELSE dispatch(socket, message)

handle_client_data == client_data(Chunks) /\ UNCHANGED script

Next ==
    \/ PeerSend
    \/ PeerClose
    \/ PeerReset
    \/ Select
    \/ handle_new_connection
    \/ handle_client_data

Spec == Init /\ [][Next]_vars

\* A pass that client descriptors alone set off.
SelectClients == Select /\ server_socket \notin read_fds'

\* run() never stops: select() returns once a watched descriptor below the
\* bound is ready, and every handler of a pass runs to its end.  Nothing
\* makes remote ends connect, send or close.
FairSpec ==
    /\ Spec
    /\ WF_vars(SelectClients)
    /\ WF_vars(handle_new_connection)
    /\ WF_vars(handle_client_data)

\* ----------------------------------------------------------------- scenario

\* Two remote ends: A is accepted first and gets the lowest free descriptor,
\* B the next one.
ConnA == ServerSocket + 1
ConnB == ServerSocket + 2

Alice == <<"a", "l", "i", "c", "e">>
Bob   == <<"b", "o", "b">>
Hello == <<"h", "e", "l", "l", "o">>
Later == <<"a", "n", "y", "o", "n", "e", "?">>

\* How many lines B sends after A has left.
MaxLater == 5

\* The ways a remote end can terminate the line it sends; bytes after the
\* first terminator may follow in the same read.
Typed(line) ==
    {line \o <<"LF">>, line \o <<"CR", "LF">>, line \o <<"CR">>,
     line \o <<"LF", "x", "LF">>}

\* What recv() gives for the (n+1)-th read with bytes on a descriptor.
ScriptLines(fd, n) ==
    IF fd = ConnA /\ n = 0 THEN Typed(Alice)
    ELSE IF fd = ConnB /\ n = 0 THEN Typed(Alice)
    ELSE IF fd = ConnB /\ n = 1 THEN Typed(Bob)
    ELSE IF fd = ConnB /\ n = 2 THEN Typed(Hello)
    ELSE IF fd = ConnB /\ n \in 3..(2 + MaxLater)
         THEN Typed(Later) \cup Typed(Hello) \cup Typed(Bob)
    ELSE {}

\* A connects once; B connects once, while A holds its descriptor.
MayConnect ==
    \/ peer[ConnA] = "free" /\ script[ConnA] = 0 /\ peer[ConnB] = "free"
    \/ peer[ConnA] # "free" /\ peer[ConnB] = "free" /\ script[ConnB] = 0

\* A sends its nickname once.  B sends "alice" after A has registered, then
\* "bob" and "hello", and its later lines after the server has dropped A.
MaySend(fd) ==
    \/ fd = ConnA /\ script[ConnA] = 0
    \/ fd = ConnB /\ script[ConnB] = 0 /\ find_client(clients, ConnA) # <<>>
    \/ fd = ConnB /\ script[ConnB] \in {1, 2}
    \/ fd = ConnB /\ script[ConnB] \in 3..(2 + MaxLater) /\ peer[ConnA] = "free"

ScSelect == Select /\ (server_socket \in read_fds' => MayConnect)

ScAccept == handle_new_connection /\ last'.op = "accept"

ScSend ==
    /\ PeerSend
    /\ \A fd \in ClientFds : peer'[fd] # peer[fd] => MaySend(fd)

\* A disconnects, by a close or by a reset, after "hello" has been read.
ScClose ==
    /\ PeerClose \/ PeerReset
    /\ peer'[ConnA] # peer[ConnA]
    /\ script[ConnA] = 1
    /\ script[ConnB] = 3

ScRead ==
    /\ read_fds # {}
    /\ LET socket == Min(read_fds)
       IN  /\ socket # server_socket
           /\ client_data(ScriptLines(socket, script[socket]))
           /\ script' = IF peer[socket] = "data"
                        THEN [script EXCEPT ![socket] = @ + 1]
                        ELSE script

ScenarioNext ==
    \/ ScSelect
    \/ ScAccept
    \/ ScSend
    \/ ScClose
    \/ ScRead

Scenario == Init /\ [][ScenarioNext]_vars


\* ------------------------------------------------------------------ claims

HasEntry(cl, fd) == \E i \in 1..Len(cl) : cl[i].socket = fd

Disconnected == last.recv \in {"err", "eof"}

\* C1: no two entries of the registry hold the same nickname, and a line
\* equal to a nickname in the registry leaves the registry as it was; when it
\* is a nickname claim (its connection has no entry) the only thing sent is a
\* rejection to the claimant.
C1_UniqueNicknames ==
    /\ \A i, j \in 1..Len(clients) :
          clients[i].nickname = clients[j].nickname => i = j
    /\ (last.recv = "data"
        /\ \E i \in 1..Len(last.pre) : last.pre[i].nickname = last.line)
       => /\ clients = last.pre
          /\ ~HasEntry(last.pre, last.fd)
             => /\ Len(sent) = 1
                /\ sent[1].kind = "reject"
                /\ sent[1].to = last.fd

\* A claim of a taken nickname has just been handled, with two clients
\* registered.
C1_Witness ==
    /\ last.op = "reject"
    /\ Len(clients) >= 2
    /\ \E i \in 1..Len(clients) : clients[i].nickname = last.line

\* C2: after a read on a client connection returned zero bytes or an error,
\* the connection is closed and its descriptor is out of the watched-set.
C2_DisconnectUnconditional ==
    Disconnected => /\ peer[last.fd] = "free"
                    /\ last.fd \notin master_set

\* C3: max_fd is at least every descriptor in the watched-set.
C3_MaxFdCoversWatched == \A fd \in master_set : fd <= max_fd

\* C4: no chat line, join notice or leave notice is sent to the connection
\* it originates from.
C4_BroadcastExcludesSender ==
    \A i \in 1..Len(sent) :
        sent[i].kind \in {"chat", "join", "leave"} => sent[i].to # last.fd

\* A chat line has just been broadcast to two other clients.
C4_Witness ==
    /\ last.op = "chat"
    /\ Len(sent) >= 2
    /\ HasEntry(clients, last.fd)

\* C5: the disconnect of a named client removes its entry and no other,
\* keeping the order of the rest, and sends each remaining client exactly one
\* leave notice with the nickname of the departed one, and nothing to the
\* departed one.
C5_NamedDisconnect ==
    (Disconnected /\ HasEntry(last.pre, last.fd)) =>
        LET pre  == last.pre
            at   == Min({i \in 1..Len(pre) : pre[i].socket = last.fd})
            rest == [k \in 1..(Len(pre) - 1) |->
                        IF k < at THEN pre[k] ELSE pre[k + 1]]
            note == <<"(wave) ">> \o pre[at].nickname
                                  \o <<" left the chat", "CR", "LF">>
        IN  /\ clients = rest
            /\ \A k \in 1..Len(rest) :
                  Cardinality({i \in 1..Len(sent) : sent[i].to = rest[k].socket}) = 1
            /\ \A i \in 1..Len(sent) :
                  /\ sent[i].kind = "leave"
                  /\ sent[i].msg = note
                  /\ sent[i].to # last.fd
                  /\ HasEntry(rest, sent[i].to)

\* The middle one of three named clients has just disconnected.
C5_Witness ==
    /\ Disconnected
    /\ Len(last.pre) = 3
    /\ last.pre[2].socket = last.fd
    /\ Len(sent) = 2

\* C6: a nickname claim read from an anonymous connection succeeds whenever
\* no live named connection holds that nickname (so in particular when the
\* nickname was given up by a client that has disconnected, whatever handle
\* the claimant has): the claimant gets an entry under that nickname and is
\* sent the welcome.
C6_NamesReleased ==
    (/\ last.recv = "data"
     /\ last.line # <<>>
     /\ last.pre_named[last.fd] = <<>>
     /\ \A fd \in ClientFds : last.pre_named[fd] # last.line)
    => /\ \E i \in 1..Len(clients) :
             clients[i] = [socket |-> last.fd, nickname |-> last.line]
       /\ Len(sent) >= 1
       /\ sent[1].kind = "welcome"
       /\ sent[1].to = last.fd

\* A new connection on the handle of a disconnected client has just
\* registered under the nickname that client gave up.
C6_Witness ==
    /\ last.op = "register"
    /\ freed.nickname = last.line
    /\ freed.socket = last.fd
    /\ HasEntry(clients, last.fd)

\* C7: the disconnect of a connection that never registered sends nothing
\* and leaves the registry as it was.
C7_AnonymousDisconnect ==
    (Disconnected /\ last.pre_named[last.fd] = <<>>) =>
        /\ sent = <<>>
        /\ clients = last.pre

\* An anonymous connection has just disconnected while a client was
\* registered.
C7_Witness ==
    /\ Disconnected
    /\ last.pre_named[last.fd] = <<>>
    /\ clients # <<>>

\* The nicknames of a non-empty sequence of entries, separated by ", ".
RECURSIVE Listing(_)
Listing(cl) ==
    IF Len(cl) = 1 THEN cl[1].nickname
    ELSE cl[1].nickname \o <<", ">> \o Listing(Tail(cl))

\* C8: on a successful registration the first thing sent is the welcome, to
\* the new client; it is the "alone" message when the registry holds no other
\* entry, and otherwise reports the number of the other entries and lists
\* their nicknames in registry order.
C8_Welcome ==
    (last.recv = "data" /\ Len(clients) = Len(last.pre) + 1) =>
        LET others == SelectSeq(clients, LAMBDA c : c.socket # last.fd)
        IN  /\ Len(sent) >= 1
            /\ sent[1].kind = "welcome"
            /\ sent[1].to = last.fd
            /\ \A i \in 2..Len(sent) : sent[i].kind # "welcome"
            /\ sent[1].msg =
                  IF Len(others) = 0
                  THEN <<"Welcome! You are the only user here.", "CR", "LF">>
                  ELSE <<"Welcome! ", ToString(Len(others)), " users online.",
                         "CR", "LF", "Users: ">>
                       \o Listing(others) \o <<"CR", "LF">>

\* A client has just registered while two others were registered.
C8_Witness ==
    /\ last.op = "register"
    /\ Len(clients) = 3
    /\ Len(sent) = 3

\* C9: every descriptor with a registry entry is in the watched-set, and so
\* is the listening one; a descriptor that had an entry and was watched
\* before the last handler has an entry after it exactly if it is still
\* watched.
C9_RegistryWatched ==
    /\ server_socket \in master_set
    /\ \A i \in 1..Len(clients) : clients[i].socket \in master_set
    /\ \A i \in 1..Len(last.pre) :
          LET fd == last.pre[i].socket
          IN  fd \in last.pre_set => (HasEntry(clients, fd) <=> fd \in master_set)

\* A named client has just been removed while another stays registered.
C9_Witness ==
    /\ last.op = "remove"
    /\ HasEntry(last.pre, last.fd)
    /\ ~HasEntry(clients, last.fd)
    /\ last.fd \notin master_set
    /\ clients # <<>>

\* C10: the registry holds at most one entry per descriptor.
C10_OneEntryPerHandle ==
    \A i, j \in 1..Len(clients) :
        clients[i].socket = clients[j].socket => i = j

\* The descriptor of a disconnected client has just been handed out again
\* by accept(), while another client is registered.
C10_Witness ==
    /\ last.op = "accept"
    /\ last.fd = freed.socket
    /\ clients # <<>>
    /\ ~HasEntry(clients, last.fd)


Anonymous(fd) == last.pre_named[fd] = <<>>

Broadcasts == {"chat", "join", "leave"}

\* C11: an entry keeps its socket and nickname until the read on its own
\* connection that returns zero bytes or an error, which removes it; an entry
\* appears only for an anonymous connection, by the line just read from it,
\* with that line as nickname; a line from a named connection is sent on as
\* chat and leaves the registry and the connection's nickname as they were;
\* a closed descriptor has no entry.
C11_Lifecycle ==
    /\ \A j \in 1..Len(clients) : peer[clients[j].socket] # "free"
    /\ last.op # "none" =>
          /\ \A i \in 1..Len(last.pre) :
                \/ \E j \in 1..Len(clients) : clients[j] = last.pre[i]
                \/ /\ Disconnected
                   /\ last.fd = last.pre[i].socket
                   /\ ~HasEntry(clients, last.fd)
          /\ \A j \in 1..Len(clients) :
                \/ \E i \in 1..Len(last.pre) : last.pre[i] = clients[j]
                \/ /\ last.recv = "data"
                   /\ last.fd = clients[j].socket
                   /\ Anonymous(last.fd)
                   /\ ~HasEntry(last.pre, last.fd)
                   /\ clients[j].nickname = last.line
                   /\ last.line # <<>>
          /\ (last.recv = "data" /\ ~Anonymous(last.fd)) =>
                /\ clients = last.pre
                /\ named[last.fd] = last.pre_named[last.fd]
                /\ \A i \in 1..Len(sent) : sent[i].kind = "chat"
          /\ Disconnected => ~HasEntry(clients, last.fd) /\ named[last.fd] = <<>>

\* A named client has just sent a line that no client holds as nickname.
C11_Witness ==
    /\ last.op = "chat"
    /\ ~Anonymous(last.fd)
    /\ \A i \in 1..Len(clients) : clients[i].nickname # last.line
    /\ clients = last.pre

\* C12: a prompt is sent only to a connection that has just been accepted,
\* and is the first thing sent to it; a rejection or a welcome is sent only
\* to an open anonymous connection, and the welcome is what makes it named;
\* a join notice, leave notice or chat line is sent only to a connection
\* that was named before the handler ran.
C12_MessageOrder ==
    /\ \A i \in 1..Len(sent) :
          LET s == sent[i]
          IN  /\ s.kind = "prompt" =>
                    last.pre_peer[s.to] = "free" /\ Len(sent) = 1
              /\ s.kind = "reject" =>
                    /\ last.pre_peer[s.to] # "free"
                    /\ Anonymous(s.to)
                    /\ named[s.to] = <<>>
              /\ s.kind = "welcome" =>
                    /\ last.pre_peer[s.to] # "free"
                    /\ Anonymous(s.to)
                    /\ named[s.to] # <<>>
                    /\ \A k \in 1..Len(sent) : sent[k].to = s.to => k = i
              /\ s.kind \in Broadcasts => ~Anonymous(s.to)
    /\ last.op # "none" =>
          \A fd \in ClientFds :
              /\ (last.pre_peer[fd] = "free" /\ peer[fd] # "free") =>
                    /\ Len(sent) = 1
                    /\ sent[1].kind = "prompt"
                    /\ sent[1].to = fd
                    /\ sent[1].ok
              /\ (Anonymous(fd) /\ named[fd] # <<>>) =>
                    /\ Len(sent) >= 1
                    /\ sent[1].kind = "welcome"
                    /\ sent[1].to = fd

\* A client has just registered: the welcome goes to it and the join
\* notices to the two clients named before.
C12_Witness ==
    /\ Len(sent) = 3
    /\ sent[1].kind = "welcome"
    /\ sent[2].kind = "join"
    /\ sent[3].kind = "join"

\* C15: a nickname claim that collides with the nickname of a live named
\* connection sends the claimant the rejection prompt and nothing to anyone
\* else, and leaves the registry, the watched-set and max_fd as they were;
\* the claimant stays anonymous, open and watched.  A claim of a nickname
\* nobody holds, from any anonymous connection, registers it.
C15_Collision ==
    (last.recv = "data" /\ last.line # <<>> /\ Anonymous(last.fd)) =>
        IF \E fd \in ClientFds : last.pre_named[fd] = last.line
        THEN /\ Len(sent) = 1
             /\ sent[1].kind = "reject"
             /\ sent[1].to = last.fd
             /\ sent[1].msg = error
             /\ clients = last.pre
             /\ master_set = last.pre_set
             /\ max_fd = last.pre_max
             /\ named[last.fd] = <<>>
             /\ ~HasEntry(clients, last.fd)
             /\ peer[last.fd] = "open"
             /\ last.fd \in master_set
        ELSE /\ HasEntry(clients, last.fd)
             /\ clients = Append(last.pre,
                                 [socket |-> last.fd, nickname |-> last.line])

\* A claim has just collided with the nickname of the second of two named
\* clients.
C15_Witness ==
    /\ last.recv = "data"
    /\ Anonymous(last.fd)
    /\ Len(last.pre) = 2
    /\ last.pre[2].nickname = last.line
    /\ Len(sent) = 1

\* C16: if a send of a broadcast fails, every entry of the registry other
\* than the sender's is still sent the text exactly once, in registry order,
\* and the handler completes: after a join notice the new client has its
\* entry, after a leave notice the departed one has none.
C16_SendFailure ==
    (\E i \in 1..Len(sent) : sent[i].kind \in Broadcasts /\ ~sent[i].ok) =>
        LET base == IF Disconnected THEN last.pre ELSE clients
            to   == SelectSeq(base, LAMBDA c : c.socket # last.fd)
            out  == SelectSeq(sent, LAMBDA m : m.kind \in Broadcasts)
        IN  /\ Len(out) = Len(to)
            /\ \A k \in 1..Len(to) :
                  /\ out[k].to = to[k].socket
                  /\ out[k].msg = out[1].msg
                  /\ out[k].kind = out[1].kind
            /\ out[1].kind = "join" =>
                  /\ clients = Append(last.pre,
                                      [socket |-> last.fd, nickname |-> last.line])
                  /\ sent[1].kind = "welcome"
            /\ out[1].kind = "leave" => ~HasEntry(clients, last.fd)
            /\ out[1].kind = "chat" => clients = last.pre

\* The join notice to the first of two other clients has just failed.
C16_Witness ==
    /\ Len(sent) = 3
    /\ sent[2].kind = "join"
    /\ ~sent[2].ok
    /\ sent[3].kind = "join"
    /\ HasEntry(clients, last.fd)

\* C17: in every step, a descriptor that has a registry entry keeps the
\* entry and stays in the watched-set, unless the step is the handler of a
\* read on that descriptor that returned zero bytes or an error.
C17_RemovedOnlyByOwnRead ==
    [][\A fd \in ClientFds :
          (HasEntry(clients, fd)
           /\ (~HasEntry(clients', fd) \/ fd \notin master_set'))
          => (last'.fd = fd /\ last'.recv \in {"err", "eof"})]_vars

\* A send to a registered client has just failed, and the client is still
\* registered and watched.
C17_Witness ==
    \E i \in 1..Len(sent) :
        /\ ~sent[i].ok
        /\ sent[i].kind \in Broadcasts
        /\ HasEntry(clients, sent[i].to)
        /\ sent[i].to \in master_set

\* C18: when the send of the prompt fails, the new descriptor is closed and
\* out of the watched-set, has no registry entry, the registry is as it was
\* and nothing else is sent.
C18_PromptFailure ==
    \A i \in 1..Len(sent) :
        (sent[i].kind = "prompt" /\ ~sent[i].ok) =>
            /\ peer[sent[i].to] = "free"
            /\ sent[i].to \notin master_set
            /\ ~HasEntry(clients, sent[i].to)
            /\ clients = last.pre
            /\ master_set = last.pre_set
            /\ Len(sent) = 1

\* The prompt to a new connection has just failed while a client is
\* registered.
C18_Witness ==
    /\ Len(sent) = 1
    /\ sent[1].kind = "prompt"
    /\ ~sent[1].ok
    /\ clients # <<>>

\* The bytes of a read before its first line terminator.
RECURSIVE Payload(_)
Payload(bytes) ==
    IF bytes = <<>> \/ Head(bytes) \in {"CR", "LF"} THEN <<>>
    ELSE <<Head(bytes)>> \o Payload(Tail(bytes))

\* C19: a read that returns bytes sends each connection at most one text;
\* a nickname it registers, a join notice or a chat line it sends carries
\* exactly the bytes of that read before its first line terminator; the rest
\* of the read is left nowhere (no unread bytes remain on the connection).
C19_OneLinePerRead ==
    last.recv = "data" =>
        LET line == Payload(got)
        IN  /\ \A fd \in ClientFds :
                  Cardinality({i \in 1..Len(sent) : sent[i].to = fd}) <= 1
            /\ Len(clients) <= Len(last.pre) + 1
            /\ Len(clients) = Len(last.pre) + 1 =>
                  clients = Append(last.pre,
                                   [socket |-> last.fd, nickname |-> line])
            /\ \A i \in 1..Len(sent) :
                  /\ sent[i].kind = "join" =>
                        sent[i].msg = <<"(wave) ">> \o line
                                      \o <<" joined the chat", "CR", "LF">>
                  /\ sent[i].kind = "chat" =>
                        \E j \in 1..Len(last.pre) :
                            /\ last.pre[j].socket = last.fd
                            /\ sent[i].msg = <<"(chat) ">> \o last.pre[j].nickname
                                   \o <<": ">> \o line \o <<"CR", "LF">>
                  /\ sent[i].kind # "leave"
            /\ line = <<>> => sent = <<>>
            /\ peer[last.fd] = "open"

\* A read carrying two lines has just been handled as a chat line.
C19_Witness ==
    /\ got = <<"a", "LF", "b", "LF">>
    /\ \E i \in 1..Len(sent) : sent[i].kind = "chat"

\* C20: every entry has a non-empty nickname; a read whose line is empty
\* sends nothing and leaves the registry, the watched-set and max_fd as they
\* were; no leave notice carries the "unknown" placeholder.
C20_NoEmptyNickname ==
    /\ \A i \in 1..Len(clients) : clients[i].nickname # <<>>
    /\ (last.recv = "data" /\ Payload(got) = <<>>) =>
          /\ sent = <<>>
          /\ clients = last.pre
          /\ master_set = last.pre_set
          /\ max_fd = last.pre_max
    /\ \A i \in 1..Len(sent) :
          sent[i].kind = "leave" =>
              \A k \in 1..Len(sent[i].msg) : sent[i].msg[k] # "unknown"

\* An empty line has just been read from an anonymous connection.
C20_Witness ==
    /\ last.recv = "data"
    /\ got = <<"LF">>
    /\ Anonymous(last.fd)
    /\ clients # <<>>


\* C13: in the scenario, A registers as alice and is welcomed as the only
\* user; B is refused the name alice and stays anonymous; B registers as bob,
\* is welcomed with alice listed, and A gets the join notice; B's "hello"
\* reaches A as "bob: hello" and B gets nothing; when A disconnects B gets
\* the leave notice for alice; a later line from B is accepted and delivered
\* to no one, and B stays connected as bob.
C13_Scenario ==
    LET a == [socket |-> ConnA, nickname |-> Alice]
        b == [socket |-> ConnB, nickname |-> Bob]
        To(fd, kind, msg) == [to |-> fd, kind |-> kind, msg |-> msg, ok |-> TRUE]
        read(fd, n) == last.fd = fd /\ last.recv = "data" /\ script[fd] = n
        later == last.fd = ConnB /\ last.recv = "data" /\ script[ConnB] >= 4
    IN  /\ read(ConnA, 1) =>
              /\ clients = <<a>>
              /\ sent = << To(ConnA, "welcome",
                              <<"Welcome! You are the only user here.",
                                "CR", "LF">>) >>
        /\ read(ConnB, 1) =>
              /\ clients = <<a>>
              /\ named[ConnB] = <<>>
              /\ sent = << To(ConnB, "reject",
                              <<"(x) Nickname taken, choose another:",
                                "CR", "LF", "> ">>) >>
        /\ read(ConnB, 2) =>
              /\ clients = <<a, b>>
              /\ sent = << To(ConnB, "welcome",
                              <<"Welcome! ", "1", " users online.", "CR", "LF",
                                "Users: ", "a", "l", "i", "c", "e",
                                "CR", "LF">>),
                           To(ConnA, "join",
                              <<"(wave) ", "b", "o", "b", " joined the chat",
                                "CR", "LF">>) >>
        /\ read(ConnB, 3) =>
              /\ clients = <<a, b>>
              /\ sent = << To(ConnA, "chat",
                              <<"(chat) ", "b", "o", "b", ": ",
                                "h", "e", "l", "l", "o", "CR", "LF">>) >>
        /\ (last.fd = ConnA /\ Disconnected) =>
              /\ clients = <<b>>
              /\ peer[ConnA] = "free"
              /\ sent = << To(ConnB, "leave",
                              <<"(wave) ", "a", "l", "i", "c", "e",
                                " left the chat", "CR", "LF">>) >>
        /\ later =>
              /\ last.op = "chat"
              /\ sent = <<>>
              /\ clients = <<b>>
              /\ peer[ConnB] = "open"
              /\ ConnB \in master_set

\* B's later line has been read after A left.
C13_Witness ==
    /\ last.fd = ConnB
    /\ last.recv = "data"
    /\ script[ConnB] >= 4
    /\ script[ConnA] = 1
    /\ peer[ConnA] = "free"

\* C14: bytes that an open connection has sent are eventually read, unless
\* the remote end resets the connection first.
C14_EventuallyRead ==
    \A fd \in ClientFds : (peer[fd] = "data") ~> (peer[fd] # "data")

====
